---- MODULE Spec2Model ----
(***************************************************************************)
(* Natural-language-to-GeoGebra pipeline: the translating server           *)
(* (sanitizer, extractor, fallback generator, history normalizer,          *)
(* POST /api/translate) and the client's onSubmit / executeCommands.       *)
(*                                                                         *)
(* A JavaScript string is a sequence of characters, each character a       *)
(* one-element TLA+ string.  A JavaScript value is a record                *)
(* [t, s, a]: t its type tag, s its text (strings, numbers, booleans),     *)
(* a its elements (arrays).                                                *)
(***************************************************************************)
EXTENDS Integers, Sequences, FiniteSets

VARIABLES
    \* sanitizer harness
    sanIn, sanOut, sanTwice, sanPc,
    \* history normalizer harness
    histIn, histOut, histPc,
    \* fallback generator harness
    fbIn, fbOut, fbPc,
    \* server: process.env, the request, the handler's position, the result of
    \* callDeepSeekChat, the response, the axios.post calls made
    server, env, reqBody, srvPc, upstream, srvResult, response, axiosCalls,
    \* client: the state of App, the requests onSubmit has issued, the last
    \* run of executeCommands and the number of evalCommand calls so far
    ggbApi, text, loading, error, explanation, lastCommands, chatHistory, abortRef,
    requests, exec, evalCount,
    \* executeCommands harness
    execIn, execPc,
    \* extractGeoGebraBlock harness
    extIn, extOut, extPc

sanVars == <<sanIn, sanOut, sanTwice, sanPc>>
histVars == <<histIn, histOut, histPc>>
fbVars == <<fbIn, fbOut, fbPc>>
srvVars == <<server, env, reqBody, srvPc, upstream, srvResult, response, axiosCalls>>
appVars == <<ggbApi, text, loading, error, explanation, lastCommands, chatHistory, abortRef>>
cliVars == <<appVars, requests, exec, evalCount, execIn, execPc>>
extVars == <<extIn, extOut, extPc>>

-----------------------------------------------------------------------------
(* Strings *)

LowerLetters == <<"a","b","c","d","e","f","g","h","i","j","k","l","m",
                  "n","o","p","q","r","s","t","u","v","w","x","y","z">>
UpperLetters == <<"A","B","C","D","E","F","G","H","I","J","K","L","M",
                  "N","O","P","Q","R","S","T","U","V","W","X","Y","Z">>

\* the /i flag: both sides are compared after upper-casing
Canonicalize(c) ==
    IF \E i \in 1..26 : LowerLetters[i] = c
    THEN UpperLetters[CHOOSE i \in 1..26 : LowerLetters[i] = c]
    ELSE c

\* \s, and the characters String.prototype.trim strips
IsSpace(c) == c \in {" ", "\t", "\n", "\r"}

Drop(s, n) == SubSeq(s, n + 1, Len(s))

RECURSIVE TrimStart(_)
TrimStart(s) == IF s # <<>> /\ IsSpace(Head(s)) THEN TrimStart(Tail(s)) ELSE s

RECURSIVE TrimEnd(_)
TrimEnd(s) ==
    IF s # <<>> /\ IsSpace(s[Len(s)]) THEN TrimEnd(SubSeq(s, 1, Len(s) - 1)) ELSE s

Trim(s) == TrimEnd(TrimStart(s))

StartsWith(s, p) == Len(s) >= Len(p) /\ SubSeq(s, 1, Len(p)) = p

StartsWithNoCase(s, p) ==
    /\ Len(s) >= Len(p)
    /\ \A i \in 1..Len(p) : Canonicalize(s[i]) = Canonicalize(p[i])

RECURSIVE Join(_, _)
Join(parts, sep) ==
    IF parts = <<>> THEN <<>>
    ELSE IF Len(parts) = 1 THEN parts[1]
    ELSE parts[1] \o sep \o Join(Tail(parts), sep)

-----------------------------------------------------------------------------
(* JavaScript values *)

JsNull == [t |-> "null", s |-> <<>>, a |-> <<>>]
JsUndefined == [t |-> "undefined", s |-> <<>>, a |-> <<>>]
JsStr(s) == [t |-> "str", s |-> s, a |-> <<>>]
JsNum(digits) == [t |-> "num", s |-> digits, a |-> <<>>]
JsBool(b) == [t |-> "bool", s |-> IF b THEN <<"t","r","u","e">> ELSE <<"f","a","l","s","e">>,
              a |-> <<>>]
JsObj == [t |-> "obj", s |-> <<>>, a |-> <<>>]
JsArr(elems) == [t |-> "arr", s |-> <<>>, a |-> elems]
JsStrArr(strs) == JsArr([i \in 1..Len(strs) |-> JsStr(strs[i])])

\* ToBoolean
Truthy(v) ==
    CASE v.t \in {"null", "undefined"} -> FALSE
      [] v.t = "str" -> v.s # <<>>
      [] v.t = "num" -> v.s # <<"0">>
      [] v.t = "bool" -> v.s = <<"t","r","u","e">>
      [] OTHER -> TRUE

ObjectText == <<"[","o","b","j","e","c","t"," ","O","b","j","e","c","t","]">>

\* String(v); an array joins its elements with ",", null and undefined
\* elements giving the empty string
RECURSIVE String(_)
String(v) ==
    CASE v.t = "null" -> <<"n","u","l","l">>
      [] v.t = "undefined" -> <<"u","n","d","e","f","i","n","e","d">>
      [] v.t = "obj" -> ObjectText
      [] v.t = "arr" ->
            Join([i \in 1..Len(v.a) |->
                    IF v.a[i].t \in {"null", "undefined"} THEN <<>>
                    ELSE String(v.a[i])], <<",">>)
      [] OTHER -> v.s

-----------------------------------------------------------------------------
(* Command sanitizer *)

RunClickScript == <<"R","u","n","C","l","i","c","k","S","c","r","i","p","t">>
RunUpdateScript == <<"R","u","n","U","p","d","a","t","e","S","c","r","i","p","t">>
SetClickScript == <<"S","e","t","C","l","i","c","k","S","c","r","i","p","t">>
SetUpdateScript == <<"S","e","t","U","p","d","a","t","e","S","c","r","i","p","t">>
Execute == <<"E","x","e","c","u","t","e">>
Button == <<"B","u","t","t","o","n">>

ScriptCommandNames ==
    {RunClickScript, RunUpdateScript, SetClickScript, SetUpdateScript, Execute, Button}

CommentPrefixes == {<<"/","/">>, <<"#">>, <<"/","*">>, <<"*","/">>}

\* /^name\s*\(/, with the i flag when noCase
MatchesCall(l, name, noCase) ==
    /\ IF noCase THEN StartsWithNoCase(l, name) ELSE StartsWith(l, name)
    /\ LET rest == TrimStart(Drop(l, Len(name)))
       IN  rest # <<>> /\ Head(rest) = "("

IsScriptCommand(l) ==
    \E name \in ScriptCommandNames : MatchesCall(l, name, TRUE)

\* the same test without the i flag
IsScriptCommand_caseSensitive(l) ==
    \E name \in ScriptCommandNames : MatchesCall(l, name, FALSE)

IsComment(l) == \E p \in CommentPrefixes : StartsWith(l, p)

\* the filters run on the untrimmed text and the trim comes last
sanitizeCommands_filterBeforeTrim(lines) ==
    LET arr == IF lines.t = "arr" THEN lines.a ELSE <<>>
        coerced == [i \in 1..Len(arr) |->
                      IF Truthy(arr[i]) THEN String(arr[i]) ELSE <<>>]
        kept == SelectSeq(coerced,
                    LAMBDA l : Trim(l) # <<>> /\ ~IsComment(l) /\ ~IsScriptCommand(l))
    IN  [i \in 1..Len(kept) |-> Trim(kept[i])]

\* the comment filters are missing
sanitizeCommands_keepsComments(lines) ==
    LET arr == IF lines.t = "arr" THEN lines.a ELSE <<>>
        mapped == [i \in 1..Len(arr) |->
                      Trim(IF Truthy(arr[i]) THEN String(arr[i]) ELSE <<>>)]
    IN  SelectSeq(mapped, LAMBDA l : l # <<>> /\ ~IsScriptCommand(l))

\* the script-command filters lose their i flag
sanitizeCommands_caseSensitive(lines) ==
    LET arr == IF lines.t = "arr" THEN lines.a ELSE <<>>
        mapped == [i \in 1..Len(arr) |->
                      Trim(IF Truthy(arr[i]) THEN String(arr[i]) ELSE <<>>)]
    IN  SelectSeq(mapped,
            LAMBDA l : l # <<>> /\ ~IsComment(l) /\ ~IsScriptCommand_caseSensitive(l))

sanitizeCommands(lines) ==
    LET arr == IF lines.t = "arr" THEN lines.a ELSE <<>>
        mapped == [i \in 1..Len(arr) |->
                      Trim(IF Truthy(arr[i]) THEN String(arr[i]) ELSE <<>>)]
    IN  SelectSeq(mapped,
            LAMBDA l : l # <<>> /\ ~IsComment(l) /\ ~IsScriptCommand(l))

-----------------------------------------------------------------------------
(* Sanitizer harness: one input, sanitized once and then once more *)

MaxLines == 2

SwapCase(s) ==
    [i \in 1..Len(s) |->
        IF \E k \in 1..26 : LowerLetters[k] = s[i]
        THEN UpperLetters[CHOOSE k \in 1..26 : LowerLetters[k] = s[i]]
        ELSE IF \E k \in 1..26 : UpperLetters[k] = s[i]
             THEN LowerLetters[CHOOSE k \in 1..26 : UpperLetters[k] = s[i]]
             ELSE s[i]]

LineLead == {<<>>, <<" ">>, <<"\t">>}
LineHead ==
    {<<>>, <<"A">>, <<"/">>, <<"*">>}
    \cup CommentPrefixes
    \cup ScriptCommandNames
    \cup {SwapCase(n) : n \in ScriptCommandNames}
LineMid == {<<>>, <<" ">>, <<"\n", " ">>}
LineParen == {<<>>, <<"(">>, <<"[">>}
LineTail == {<<>>, <<"A">>, <<" ">>, <<"A", "\r", "\n">>}

CandidateLines ==
    {a \o b \o c \o d \o e :
        a \in LineLead, b \in LineHead, c \in LineMid, d \in LineParen, e \in LineTail}

\* elements that are not strings, or that stand next to the line under test
OtherElements ==
    { JsNull, JsNum(<<"0">>), JsBool(TRUE), JsObj,
      JsStr(<<" ", "#", "x">>), JsStr(<<"B", "=", "1", " ">>),
      JsArr(<<JsStr(<<" ", "/", "/">>)>>),
      JsArr(<<JsStr(<<"P">>), JsNull, JsStr(<<"Q", " ">>)>>) }

RECURSIVE ArraysOf(_, _)
ArraysOf(S, n) ==
    IF n = 0 THEN {<<>>}
    ELSE LET shorter == ArraysOf(S, n - 1)
         IN  shorter \cup {Append(x, e) : x \in {y \in shorter : Len(y) = n - 1}, e \in S}

SanitizerInputs ==
    {JsNull, JsUndefined, JsObj, JsStr(<<"A">>), JsNum(<<"7">>)}
    \cup {JsArr(tailElems) : tailElems \in ArraysOf(OtherElements, MaxLines)}
    \cup {JsArr(<<JsStr(l)>> \o tailElems) :
            l \in CandidateLines, tailElems \in ArraysOf(OtherElements, MaxLines - 1)}

Sanitize ==
    /\ sanPc = "input"
    /\ sanOut' = sanitizeCommands(sanIn)
    /\ sanTwice' = sanitizeCommands(JsStrArr(sanitizeCommands(sanIn)))
    /\ sanPc' = "done"
    /\ UNCHANGED sanIn

-----------------------------------------------------------------------------
(* Conversation history normalizer *)
(* A message's content is kept run-length encoded, <<[c, n], ...>> standing *)
(* for n copies of the character c and so on, so that contents longer than  *)
(* the per-message cap can be enumerated.                                   *)

MAX_MESSAGES == 8
MAX_CHARS_PER_MESSAGE == 4000

Run(c, n) == [c |-> c, n |-> n]

RECURSIVE RunsLength(_)
RunsLength(runs) == IF runs = <<>> THEN 0 ELSE Head(runs).n + RunsLength(Tail(runs))

RECURSIVE RunsTrimStart(_)
RunsTrimStart(runs) ==
    IF runs # <<>> /\ IsSpace(Head(runs).c) THEN RunsTrimStart(Tail(runs)) ELSE runs

RECURSIVE RunsTrimEnd(_)
RunsTrimEnd(runs) ==
    IF runs # <<>> /\ IsSpace(runs[Len(runs)].c)
    THEN RunsTrimEnd(SubSeq(runs, 1, Len(runs) - 1))
    ELSE runs

RunsTrim(runs) == RunsTrimEnd(RunsTrimStart(runs))

\* slice(0, n)
RECURSIVE RunsSlice(_, _)
RunsSlice(runs, n) ==
    IF runs = <<>> \/ n <= 0 THEN <<>>
    ELSE IF Head(runs).n <= n
         THEN <<Head(runs)>> \o RunsSlice(Tail(runs), n - Head(runs).n)
         ELSE <<Run(Head(runs).c, n)>>

\* slice(-n) of an array
LastN(seq, n) == IF Len(seq) <= n THEN seq ELSE SubSeq(seq, Len(seq) - n + 1, Len(seq))

User == <<"u","s","e","r">>
Assistant == <<"a","s","s","i","s","t","a","n","t">>
System == <<"s","y","s","t","e","m">>
allowed == {User, Assistant}

\* a history entry: t its type tag; role and content its properties when it is
\* an object (JsUndefined when the property is missing)
HistObj(role, content) == [t |-> "obj", role |-> role, content |-> content]
HistPrimitive(tag, truthy) ==
    [t |-> tag, role |-> JsUndefined, content |-> [t |-> "undefined", truthy |-> truthy]]
ContentStr(runs) == [t |-> "str", runs |-> runs]
ContentOther(tag) == [t |-> tag, runs |-> <<>>]

EntryTruthy(m) ==
    CASE m.t = "obj" -> TRUE
      [] m.t \in {"null", "undefined"} -> FALSE
      [] OTHER -> m.content.truthy

\* reading a property of null or undefined throws a TypeError
PropertyThrows(m) == m.t \in {"null", "undefined"}

\* m && allowed.has(m.role) && typeof m.content === 'string'
KeepEntry(m) ==
    /\ EntryTruthy(m)
    /\ m.t = "obj"
    /\ m.role.t = "str" /\ m.role.s \in allowed
    /\ m.content.t = "str"

NormalizedEntry(m) ==
    [role |-> m.role.s,
     content |-> RunsSlice(RunsTrim(m.content.runs), MAX_CHARS_PER_MESSAGE)]

\* the filter reads m.role without the "m &&" guard
normalizeHistory_unguarded(history) ==
    IF history.t # "arr" THEN [threw |-> FALSE, out |-> <<>>]
    ELSE IF \E i \in 1..Len(history.a) : PropertyThrows(history.a[i])
         THEN [threw |-> TRUE, out |-> <<>>]
         ELSE LET kept == SelectSeq(history.a, KeepEntry)
                  mapped == [i \in 1..Len(kept) |-> NormalizedEntry(kept[i])]
                  nonEmpty == SelectSeq(mapped, LAMBDA m : m.content # <<>>)
              IN  [threw |-> FALSE, out |-> LastN(nonEmpty, MAX_MESSAGES)]

\* slice(-MAX_MESSAGES) comes before the filter of the empty contents
normalizeHistory_sliceFirst(history) ==
    IF history.t # "arr" THEN [threw |-> FALSE, out |-> <<>>]
    ELSE IF \E i \in 1..Len(history.a) :
                EntryTruthy(history.a[i]) /\ PropertyThrows(history.a[i])
         THEN [threw |-> TRUE, out |-> <<>>]
         ELSE LET kept == SelectSeq(history.a, KeepEntry)
                  mapped == [i \in 1..Len(kept) |-> NormalizedEntry(kept[i])]
                  latest == LastN(mapped, MAX_MESSAGES)
              IN  [threw |-> FALSE, out |-> SelectSeq(latest, LAMBDA m : m.content # <<>>)]

\* "m &&" stops the filter before m.role is read; an entry that gets past it
\* and has no properties to read makes the call throw
normalizeHistory(history) ==
    IF history.t # "arr" THEN [threw |-> FALSE, out |-> <<>>]
    ELSE IF \E i \in 1..Len(history.a) :
                EntryTruthy(history.a[i]) /\ PropertyThrows(history.a[i])
         THEN [threw |-> TRUE, out |-> <<>>]
         ELSE LET kept == SelectSeq(history.a, KeepEntry)
                  mapped == [i \in 1..Len(kept) |-> NormalizedEntry(kept[i])]
                  nonEmpty == SelectSeq(mapped, LAMBDA m : m.content # <<>>)
              IN  [threw |-> FALSE, out |-> LastN(nonEmpty, MAX_MESSAGES)]

-----------------------------------------------------------------------------
(* History normalizer harness *)

MaxRepeat == 9

ShortUser == HistObj(JsStr(User), ContentStr(<<Run("a", 5)>>))
LongAssistant ==
    HistObj(JsStr(Assistant), ContentStr(<<Run(" ", 2), Run("a", 4001), Run("\n", 1)>>))
CutAtSpace ==
    HistObj(JsStr(Assistant), ContentStr(<<Run("a", 3999), Run(" ", 3), Run("b", 5)>>))
BlankUser == HistObj(JsStr(User), ContentStr(<<Run(" ", 4001)>>))

HistoryEntries ==
    { ShortUser, LongAssistant, CutAtSpace, BlankUser,
      HistObj(JsStr(System), ContentStr(<<Run("s", 1)>>)),
      HistObj(JsStr(User), ContentOther("num")),
      HistObj(JsUndefined, ContentStr(<<Run("a", 1)>>)),
      HistObj(JsNum(<<"7">>), ContentOther("undefined")),
      HistPrimitive("null", FALSE),
      HistPrimitive("undefined", FALSE),
      HistPrimitive("num", FALSE),
      HistPrimitive("str", TRUE) }

RepeatedEntries == {ShortUser, LongAssistant, BlankUser}

Repeat(e, k) == [i \in 1..k |-> e]

HistoryInputs ==
    { [t |-> "null", a |-> <<>>], [t |-> "undefined", a |-> <<>>],
      [t |-> "obj", a |-> <<>>], [t |-> "str", a |-> <<>>] }
    \cup { [t |-> "arr", a |-> pre \o Repeat(e, k) \o post] :
             pre \in ArraysOf(HistoryEntries, 1), e \in RepeatedEntries,
             k \in 0..MaxRepeat, post \in ArraysOf(HistoryEntries, 1) }

Normalize ==
    /\ histPc = "input"
    /\ histOut' = normalizeHistory(histIn)
    /\ histPc' = "done"
    /\ UNCHANGED histIn

-----------------------------------------------------------------------------
(* Response extractor *)
(* Characters outside ASCII are written by name: "tuo" "yuan" (ellipse),     *)
(* "yuan" (circle), "yun" "dong" (motion), "dong" "hua" (animation),         *)
(* "zhuan" (turn), "hua" (draw), "pi", "colon" (full-width colon), and the   *)
(* grave accent of a fence is written "tick".                                *)

Backticks == <<"tick","tick","tick">>
Geogebra == <<"g","e","o","g","e","b","r","a">>

At(s, i, p) == i >= 1 /\ i + Len(p) - 1 <= Len(s) /\ SubSeq(s, i, i + Len(p) - 1) = p

AtNoCase(s, i, p) ==
    /\ i >= 1 /\ i + Len(p) - 1 <= Len(s)
    /\ \A k \in 1..Len(p) : Canonicalize(s[i + k - 1]) = Canonicalize(p[k])

\* first index >= i holding p, 0 when there is none
IndexOf(s, p, i) ==
    LET hits == {j \in i..Len(s) : At(s, j, p)}
    IN  IF hits = {} THEN 0 ELSE CHOOSE j \in hits : \A k \in hits : j <= k

Contains(s, p) == IndexOf(s, p, 1) # 0

\* first index >= i that holds no white space (Len(s) + 1 when all do)
RECURSIVE SkipSpace(_, _)
SkipSpace(s, i) == IF i <= Len(s) /\ IsSpace(s[i]) THEN SkipSpace(s, i + 1) ELSE i

NoMatch == [found |-> FALSE, start |-> 0, bodyStart |-> 0, bodyEnd |-> 0, end |-> 0]

\* The fence pattern, tick tick tick \s* geogebra \s* \r? \n ([\s\S]*?) tick
\* tick tick with the i flag, tried at index i.  The greedy \s*
\* after the tag gives back characters until a line feed follows it, so the
\* group starts after the last line feed of the white space that follows the
\* tag; the lazy group ends at the first closing fence.  The other server's
\* pattern, without the \r?, matches the same texts the same way.
FenceAt(s, i) ==
    IF ~At(s, i, Backticks) THEN NoMatch
    ELSE LET g == SkipSpace(s, i + 3)
         IN  IF ~AtNoCase(s, g, Geogebra) THEN NoMatch
             ELSE LET w == g + Len(Geogebra)
                      wEnd == SkipSpace(s, w)
                      feeds == {q \in w..(wEnd - 1) : s[q] = "\n"}
                  IN  IF feeds = {} THEN NoMatch
                      ELSE LET q == CHOOSE x \in feeds : \A y \in feeds : y <= x
                               close == IndexOf(s, Backticks, q + 1)
                           IN  IF close = 0 THEN NoMatch
                               ELSE [found |-> TRUE, start |-> i, bodyStart |-> q + 1,
                                     bodyEnd |-> close - 1, end |-> close + 2]

\* s.match(fence): the leftmost index at which the pattern matches
FenceMatch(s) ==
    LET starts == {i \in 1..Len(s) : FenceAt(s, i).found}
    IN  IF starts = {} THEN NoMatch
        ELSE FenceAt(s, CHOOSE i \in starts : \A k \in starts : i <= k)

\* split(/\r?\n/)
RECURSIVE SplitLines(_, _)
SplitLines(s, cur) ==
    IF s = <<>> THEN <<cur>>
    ELSE IF Head(s) = "\n" THEN <<cur>> \o SplitLines(Tail(s), <<>>)
    ELSE IF Head(s) = "\r" /\ Len(s) >= 2 /\ s[2] = "\n"
         THEN <<cur>> \o SplitLines(Drop(s, 2), <<>>)
    ELSE SplitLines(Tail(s), Append(cur, Head(s)))

BlockLines(body) ==
    LET trimmed == [i \in 1..Len(SplitLines(body, <<>>)) |-> Trim(SplitLines(body, <<>>)[i])]
    IN  SelectSeq(trimmed, LAMBDA l : l # <<>>)

\* sanitizes: TRUE for the server that filters script commands
\* (src/unnamed/part_000), FALSE for src/server/index.js
extractGeoGebraBlock(content, sanitizes) ==
    IF ~Truthy(content) THEN [commands |-> <<>>, explanation |-> <<>>]
    ELSE LET s == String(content)
             m == FenceMatch(s)
         IN  IF m.found
             THEN [commands |->
                      IF sanitizes
                      THEN sanitizeCommands(JsStrArr(BlockLines(SubSeq(s, m.bodyStart, m.bodyEnd))))
                      ELSE BlockLines(SubSeq(s, m.bodyStart, m.bodyEnd)),
                   explanation |-> Trim(SubSeq(s, 1, m.start - 1) \o Drop(s, m.end))]
             ELSE [commands |-> <<>>, explanation |-> Trim(s)]

-----------------------------------------------------------------------------
(* Fallback generator *)

Ellipse == <<"tuo", "yuan">>
Circle == <<"yuan">>
MotionWords == {<<"yun", "dong">>, <<"dong", "hua">>, <<"zhuan">>}

\* the fixed messages, each written as a one-element text
EmptyInputExplanation == <<"EmptyInputExplanation">>
EllipseExplanation == <<"EllipseExplanation">>
MotionExplanation == <<"MotionExplanation">>
CircleExplanation == <<"CircleExplanation">>
DemoModeExplanation == <<"DemoModeExplanation">>
ClarificationPrompt == <<"ClarificationPrompt">>

EllipseCommands ==
    << <<"x","^","2","/","2","5"," ","+"," ","y","^","2","/","9"," ","="," ","1">>,
       <<"T","e","x","t","(","\"","tuo","yuan","colon","x","^","2","/","2","5"," ","+"," ",
         "y","^","2","/","9"," ","="," ","1","\"",","," ","(","-","9",","," ","6",")",")">> >>

MotionCommands ==
    << <<"a"," ","="," ","S","l","i","d","e","r","[","0",","," ","2","pi",","," ",
         "0",".","0","1","]">>,
       <<"C","i","r","c","l","e","(","(","0",","," ","0",")",","," ","5",")">>,
       <<"P"," ","="," ","(","5"," ","c","o","s","(","a",")",","," ","5"," ",
         "s","i","n","(","a",")",")">>,
       <<"S","t","a","r","t","A","n","i","m","a","t","i","o","n","[","a",","," ",
         "t","r","u","e","]">> >>

CircleCommands ==
    << <<"O"," ","="," ","(","0",","," ","0",")">>,
       <<"C","i","r","c","l","e","(","O",","," ","5",")">> >>

\* the circle rule is tried before the circle-and-motion rule
ruleBasedFallback_circleFirst(userText) ==
    LET t == Trim(IF Truthy(userText) THEN String(userText) ELSE <<>>)
    IN  IF t = <<>> THEN [explanation |-> EmptyInputExplanation, commands |-> <<>>]
        ELSE IF Contains(t, Ellipse)
             THEN [explanation |-> EllipseExplanation, commands |-> EllipseCommands]
        ELSE IF Contains(t, Circle)
             THEN [explanation |-> CircleExplanation, commands |-> CircleCommands]
        ELSE IF Contains(t, Circle) /\ \E w \in MotionWords : Contains(t, w)
             THEN [explanation |-> MotionExplanation, commands |-> MotionCommands]
        ELSE [explanation |-> DemoModeExplanation, commands |-> <<>>]

ruleBasedFallback(userText) ==
    LET t == Trim(IF Truthy(userText) THEN String(userText) ELSE <<>>)
    IN  IF t = <<>> THEN [explanation |-> EmptyInputExplanation, commands |-> <<>>]
        ELSE IF Contains(t, Ellipse)
             THEN [explanation |-> EllipseExplanation, commands |-> EllipseCommands]
        ELSE IF Contains(t, Circle) /\ \E w \in MotionWords : Contains(t, w)
             THEN [explanation |-> MotionExplanation, commands |-> MotionCommands]
        ELSE IF Contains(t, Circle)
             THEN [explanation |-> CircleExplanation, commands |-> CircleCommands]
        ELSE [explanation |-> DemoModeExplanation, commands |-> <<>>]

-----------------------------------------------------------------------------
(* Translation orchestrator and POST /api/translate *)
(* server = "part_000": the server that sanitizes and answers a             *)
(* clarification with 200; server = "index.js": src/server/index.js.        *)

Servers == {"part_000", "index.js"}

NoResult == [mode |-> "none", explanation |-> <<>>, commands |-> <<>>, raw |-> JsUndefined]

\* raw is the reply without its command block
ModelResult_rawExplanation(content, sanitizes) ==
    [mode |-> "llm",
     explanation |-> extractGeoGebraBlock(content, sanitizes).explanation,
     commands |-> extractGeoGebraBlock(content, sanitizes).commands,
     raw |-> JsStr(extractGeoGebraBlock(content, sanitizes).explanation)]

\* callDeepSeekChat after axios.post has resolved with a reply whose
\* data.choices[0].message.content is content (JsUndefined when the payload
\* has no such field)
ModelResult(content, sanitizes) ==
    [mode |-> "llm",
     explanation |-> extractGeoGebraBlock(content, sanitizes).explanation,
     commands |-> extractGeoGebraBlock(content, sanitizes).commands,
     raw |-> content]

\* the fallback result keeps the text it was given as raw
FallbackResult_rawText(userText) ==
    [mode |-> "fallback",
     explanation |-> ruleBasedFallback(JsStr(userText)).explanation,
     commands |-> ruleBasedFallback(JsStr(userText)).commands,
     raw |-> JsStr(userText)]

\* callDeepSeekChat when no API key is configured
FallbackResult(userText) ==
    [mode |-> "fallback",
     explanation |-> ruleBasedFallback(JsStr(userText)).explanation,
     commands |-> ruleBasedFallback(JsStr(userText)).commands,
     raw |-> JsNull]

\* the test for a text of white space only is missing
TextRejected_blankAccepted(t) == ~Truthy(t) \/ t.t # "str"

\* !text || typeof text !== 'string' || !text.trim()
TextRejected(t) == ~Truthy(t) \/ t.t # "str" \/ Trim(t.s) = <<>>

Response(status, err, expl, commands, needClarification, raw, mode) ==
    [status |-> status, error |-> err, explanation |-> expl,
     commands |-> commands, needClarification |-> needClarification,
     raw |-> raw, mode |-> mode]

NoResponse == Response(0, <<>>, <<>>, <<>>, "absent", JsUndefined, "absent")

BadRequest == Response(400, <<"TextEmptyError">>, <<>>, <<>>, "absent", JsUndefined, "absent")

ServerError(message) == Response(500, message, <<>>, <<>>, "absent", JsUndefined, "absent")

\* the clarification flag is raised only when the explanation is empty too
Respond_part_000_flagOnEmptyExplanation(result, returnRaw) ==
    LET safeCommands == sanitizeCommands(JsStrArr(result.commands))
    IN  IF safeCommands = <<>>
        THEN Response(200, <<>>,
                      IF result.explanation # <<>> THEN result.explanation
                      ELSE ClarificationPrompt,
                      <<>>, IF result.explanation = <<>> THEN "true" ELSE "false",
                      IF returnRaw THEN result.raw ELSE JsUndefined, result.mode)
        ELSE Response(200, <<>>, result.explanation, safeCommands, "false",
                      IF returnRaw THEN result.raw ELSE JsUndefined, result.mode)

\* src/unnamed/part_000, after callDeepSeekChat has returned
Respond_part_000(result, returnRaw) ==
    LET safeCommands == sanitizeCommands(JsStrArr(result.commands))
    IN  IF safeCommands = <<>>
        THEN Response(200, <<>>,
                      IF result.explanation # <<>> THEN result.explanation
                      ELSE ClarificationPrompt,
                      <<>>, "true", IF returnRaw THEN result.raw ELSE JsUndefined, result.mode)
        ELSE Response(200, <<>>, result.explanation, safeCommands, "false",
                      IF returnRaw THEN result.raw ELSE JsUndefined, result.mode)

\* src/server/index.js, after callDeepSeekChat has returned
Respond_index_js(result, returnRaw) ==
    IF result.commands = <<>>
    THEN Response(422, <<"NoCommandBlockError">>, result.explanation, <<>>, "absent",
                  IF Truthy(result.raw) THEN result.raw ELSE JsNull, "absent")
    ELSE Response(200, <<>>, result.explanation, result.commands, "absent",
                  IF returnRaw THEN result.raw ELSE JsUndefined, result.mode)

Respond(srv, result, returnRaw) ==
    IF srv = "part_000" THEN Respond_part_000(result, returnRaw)
    ELSE Respond_index_js(result, returnRaw)

\* e?.response?.data ? JSON.stringify(e.response.data) : e?.message || 'AI 服务异常'
ErrorMessage(failure) ==
    IF failure.hasData THEN <<"UpstreamErrorBody">>
    ELSE IF failure.hasMessage THEN <<"ErrorMessage">>
    ELSE <<"ServiceError">>
-----------------------------------------------------------------------------
(* Fallback generator harness *)

MaxTextLen == 3

TextChars == {"hua", "tuo", "yuan", "yun", "dong", "zhuan", " ", "x"}

FallbackInputs ==
    {JsNull, JsUndefined, JsNum(<<"0">>)}
    \cup {JsStr(t) : t \in ArraysOf(TextChars, MaxTextLen)}

Fallback ==
    /\ fbPc = "input"
    /\ fbOut' = ruleBasedFallback(fbIn)
    /\ fbPc' = "done"
    /\ UNCHANGED fbIn

-----------------------------------------------------------------------------
(* Server: one request from its arrival to its response *)

ApiKeys == {JsUndefined, JsStr(<<>>), JsStr(<<"k">>)}

RequestTexts ==
    { JsUndefined, JsNull, JsNum(<<"7">>), JsObj, JsStr(<<>>), JsStr(<<" ", "\n">>),
      JsStr(<<"hua", "yuan">>), JsStr(<<" ", "yuan", "zhuan", " ">>),
      JsStr(<<"tuo", "yuan", "yun", "dong">>), JsStr(<<"x">>) }

RequestHistories ==
    { [t |-> "undefined", a |-> <<>>],
      [t |-> "arr", a |-> <<HistPrimitive("null", FALSE), LongAssistant>>] }

\* replies of the model: text around a fenced block, every part optional
ReplyBefore == {<<>>, <<"H", "i", "\n">>}
ReplyOpen == {Backticks \o Geogebra, Backticks \o <<" ">> \o SwapCase(Geogebra),
              Backticks \o <<"j", "s">>, <<>>}
ReplyAfterTag == {<<"\n">>, <<"\r", "\n">>, <<" ", "\n", " ">>, <<" ">>}
ReplyBlock ==
    { <<>>, <<"A">>, <<" ", "\n">>, <<"#", "c", "\n">>,
      <<"A", "\r", "\n", " ">> \o SwapCase(Execute) \o <<" ", "(", "A", ")", " ", "\n", "B">>,
      Button \o <<"(", "1", ")">> }
ReplyBeforeClose == {<<>>, <<"\n">>}
ReplyClose == {Backticks, <<>>}
ReplyAfter == {<<>>, <<" ", "o", "k", " ">>}

ReplyContents ==
    { JsUndefined, JsNull, JsNum(<<"0">>), JsNum(<<"7">>), JsObj }
    \cup { JsStr(a \o b \o c \o d \o e \o f \o g) :
             a \in ReplyBefore, b \in ReplyOpen, c \in ReplyAfterTag, d \in ReplyBlock,
             e \in ReplyBeforeClose, f \in ReplyClose, g \in ReplyAfter }

\* what a rejected axios.post carries: e.response.data, e.message
Failures == [hasData : BOOLEAN, hasMessage : BOOLEAN]

\* app.post('/api/translate') up to the await of axios.post, or to the
\* response when the request is rejected or answered by the fallback
Translate ==
    /\ srvPc = "request"
    /\ IF TextRejected(reqBody.text)
       THEN /\ response' = BadRequest
            /\ srvPc' = "done"
            /\ UNCHANGED <<srvResult, axiosCalls>>
       ELSE IF ~Truthy(env.apiKey)
       THEN /\ srvResult' = FallbackResult(Trim(reqBody.text.s))
            /\ response' = Respond(server, FallbackResult(Trim(reqBody.text.s)), env.returnRaw)
            /\ srvPc' = "done"
            /\ UNCHANGED axiosCalls
       ELSE /\ axiosCalls' = Append(axiosCalls,
                                [userText |-> Trim(reqBody.text.s),
                                 history |-> IF server = "part_000"
                                             THEN normalizeHistory(reqBody.history).out
                                             ELSE <<>>])
            /\ srvPc' = "awaiting"
            /\ UNCHANGED <<srvResult, response>>
    /\ UNCHANGED <<server, env, reqBody, upstream>>

\* axios.post resolves
UpstreamReplies ==
    /\ srvPc = "awaiting"
    /\ \E content \in ReplyContents :
          /\ upstream' = content
          /\ srvResult' = ModelResult(content, server = "part_000")
          /\ response' = Respond(server, ModelResult(content, server = "part_000"),
                                 env.returnRaw)
    /\ srvPc' = "done"
    /\ UNCHANGED <<server, env, reqBody, axiosCalls>>

\* axios.post rejects: network error, timeout, non-2xx status
UpstreamFails ==
    /\ srvPc = "awaiting"
    /\ \E failure \in Failures : response' = ServerError(ErrorMessage(failure))
    /\ srvPc' = "done"
    /\ UNCHANGED <<server, env, reqBody, upstream, srvResult, axiosCalls>>

-----------------------------------------------------------------------------
(* Client: App.jsx *)

HISTORY_KEEP_MESSAGES == 12

\* the messages of the client, each written as a one-element text
EmptyTextError == <<"EmptyTextError">>
NotReadyError == <<"NotReadyError">>
NoCommandsError == <<"NoCommandsError">>
ClarifyError == <<"ClarifyError">>
RequestFailed == <<"RequestFailed">>
ExecFailed(cmd) == <<"ExecFailed:">> \o cmd
HttpError(status) == <<"HttpError", status>>

normalizeCommands(commands) ==
    IF ~Truthy(commands) THEN <<>>
    ELSE IF commands.t = "arr"
         THEN SelectSeq([i \in 1..Len(commands.a) |-> Trim(String(commands.a[i]))],
                        LAMBDA l : l # <<>>)
         ELSE BlockLines(String(commands))

\* evalCommand's answers, one per position of the batch
Engines(cmds) == [1..Len(cmds) -> BOOLEAN]

NoRun ==
    [api |-> FALSE, batch |-> <<>>, engine |-> <<>>, calls |-> <<>>, thrown |-> <<>>,
     applied |-> FALSE]

\* the loop goes on after a command has failed and throws at its end
RECURSIVE EvalRest_noHalt(_, _, _, _)
EvalRest_noHalt(cmds, engine, i, failed) ==
    IF i > Len(cmds)
    THEN [api |-> TRUE, batch |-> cmds, engine |-> engine, calls |-> cmds,
          thrown |-> IF failed = 0 THEN <<>> ELSE ExecFailed(cmds[failed]),
          applied |-> failed = 0]
    ELSE EvalRest_noHalt(cmds, engine, i + 1, IF failed = 0 /\ ~engine[i] THEN i ELSE failed)

EvalLoop_noHalt(cmds, engine, i) == EvalRest_noHalt(cmds, engine, i, 0)

\* for (const cmd of cmds), from the i-th command on: evalCommand, throw on a
\* falsy answer; setLastCommands(cmds) after the last command
RECURSIVE EvalLoop(_, _, _)
EvalLoop(cmds, engine, i) ==
    IF i > Len(cmds)
    THEN [api |-> TRUE, batch |-> cmds, engine |-> engine, calls |-> cmds,
          thrown |-> <<>>, applied |-> TRUE]
    ELSE IF ~engine[i]
         THEN [api |-> TRUE, batch |-> cmds, engine |-> engine,
               calls |-> SubSeq(cmds, 1, i), thrown |-> ExecFailed(cmds[i]),
               applied |-> FALSE]
         ELSE EvalLoop(cmds, engine, i + 1)

\* the test for an empty batch is missing
executeCommands_emptyBatchRuns(commands, api, engine) ==
    LET cmds == normalizeCommands(commands)
    IN  IF ~api
        THEN [api |-> FALSE, batch |-> cmds, engine |-> engine, calls |-> <<>>,
              thrown |-> NotReadyError, applied |-> FALSE]
        ELSE EvalLoop(cmds, engine, 1)

\* executeCommands with the ggbApi its closure holds (api) and an engine
executeCommands(commands, api, engine) ==
    LET cmds == normalizeCommands(commands)
    IN  IF ~api
        THEN [api |-> FALSE, batch |-> cmds, engine |-> engine, calls |-> <<>>,
              thrown |-> NotReadyError, applied |-> FALSE]
        ELSE IF cmds = <<>>
        THEN [api |-> TRUE, batch |-> cmds, engine |-> engine, calls |-> <<>>,
              thrown |-> NoCommandsError, applied |-> FALSE]
        ELSE EvalLoop(cmds, engine, 1)

\* the markdown of the assistant's turn
AssistantMd(expl, cmds) ==
    Trim(Trim(expl) \o
         (IF cmds # <<>>
          THEN <<"\n", "\n">> \o Backticks \o Geogebra \o <<"\n">> \o Join(cmds, <<"\n">>)
               \o <<"\n">> \o Backticks
          ELSE <<>>))

NextHistory(prev, trimmed, assistantMd) ==
    LastN(prev \o <<[role |-> User, content |-> trimmed]>>
               \o (IF assistantMd # <<>>
                   THEN <<[role |-> Assistant, content |-> assistantMd]>>
                   ELSE <<>>),
          HISTORY_KEEP_MESSAGES)

\* the parsed body of a response; a field that is missing is the empty text,
\* JsUndefined or FALSE
Data(err, expl, commands, needClarification) ==
    [error |-> err, explanation |-> expl, commands |-> commands,
     needClarification |-> needClarification]

EmptyData == Data(<<>>, <<>>, JsUndefined, FALSE)

-----------------------------------------------------------------------------
(* Client actions *)

MaxRequests == 2

Texts == {<<" ", "\n">>, <<" ", "x", "\n">>}

Statuses == {"200", "500"}

Bodies ==
    { Data(<<>>, <<"E", " ">>, JsStrArr(<< <<"A">>, <<" ", "B", " ">>, <<" ">>, <<"C">> >>),
           FALSE),
      Data(<<>>, <<>>, JsStr(<<"A", "\r", "\n", "B">>), FALSE),
      Data(<<>>, <<"Q">>, JsArr(<<>>), TRUE),
      Data(<<"b", "o", "o", "m">>, <<>>, JsUndefined, FALSE),
      EmptyData }

NewRequest(trimmed, api) ==
    [trimmed |-> trimmed, api |-> api, pc |-> "fetching", aborted |-> FALSE, status |-> "0",
     data |-> EmptyData]

\* onApiReady
ApiReady ==
    /\ ~ggbApi
    /\ ggbApi' = TRUE
    /\ UNCHANGED <<text, loading, error, explanation, lastCommands, chatHistory, abortRef,
                   requests, exec, evalCount, execIn, execPc>>

\* the textarea's onChange
SetText ==
    /\ \E t \in Texts : text' = t /\ t # text
    /\ UNCHANGED <<ggbApi, loading, error, explanation, lastCommands, chatHistory, abortRef,
                   requests, exec, evalCount, execIn, execPc>>

\* onSubmit up to its return on a blank text
SubmitBlank ==
    /\ Trim(text) = <<>>
    /\ error' = EmptyTextError
    /\ explanation' = <<>>
    /\ UNCHANGED <<ggbApi, text, loading, lastCommands, chatHistory, abortRef,
                   requests, exec, evalCount, execIn, execPc>>

\* onSubmit up to the await of fetch: the controller of the previous request
\* is aborted, a new request is issued with the executeCommands of this render
Submit ==
    /\ Trim(text) # <<>>
    /\ Len(requests) < MaxRequests
    /\ error' = <<>>
    /\ explanation' = <<>>
    /\ requests' = Append(
          [i \in 1..Len(requests) |->
              IF i = abortRef THEN [requests[i] EXCEPT !.aborted = TRUE] ELSE requests[i]],
          NewRequest(Trim(text), ggbApi))
    /\ abortRef' = Len(requests) + 1
    /\ loading' = TRUE
    /\ UNCHANGED <<ggbApi, text, lastCommands, chatHistory, exec, evalCount, execIn, execPc>>

\* fetch resolves with the response's status line; an aborted fetch does not
FetchResolves(i) ==
    /\ requests[i].pc = "fetching"
    /\ ~requests[i].aborted
    /\ \E status \in Statuses :
          requests' = [requests EXCEPT ![i].pc = "body", ![i].status = status]
    /\ UNCHANGED <<appVars, exec, evalCount, execIn, execPc>>

\* fetch rejects: with an AbortError when the request was aborted (the catch
\* returns), with a network error otherwise; the finally block runs
FetchRejects(i) ==
    /\ requests[i].pc = "fetching"
    /\ requests' = [requests EXCEPT ![i].pc = "done"]
    /\ error' = IF requests[i].aborted THEN error ELSE RequestFailed
    /\ loading' = FALSE
    /\ UNCHANGED <<ggbApi, text, explanation, lastCommands, chatHistory, abortRef,
                   exec, evalCount, execIn, execPc>>

\* res.json() settles and onSubmit runs to its end.  The body read of an
\* aborted request rejects, and so does the parse of a body that is not JSON;
\* .catch(() => ({})) turns both into the empty object.
BodyRead(i) ==
    /\ requests[i].pc = "body"
    /\ \E parsed \in Bodies :
          LET data == IF requests[i].aborted THEN EmptyData ELSE parsed
              cmds == normalizeCommands(data.commands)
          IN  \E engine \in Engines(cmds) :
              LET run == executeCommands(JsStrArr(cmds), requests[i].api, engine)
              IN  /\ requests' = [requests EXCEPT ![i].pc = "done", ![i].data = data]
                  /\ IF requests[i].status # "200"
                    THEN /\ error' = IF data.error # <<>> THEN data.error
                                     ELSE HttpError(requests[i].status)
                         /\ UNCHANGED <<explanation, lastCommands, chatHistory, exec, evalCount>>
                    ELSE /\ explanation' = data.explanation
                         /\ lastCommands' = cmds
                         /\ chatHistory' = NextHistory(chatHistory, requests[i].trimmed,
                                                       AssistantMd(data.explanation, cmds))
                         /\ IF cmds # <<>>
                            THEN /\ exec' = run
                                 /\ evalCount' = evalCount + Len(run.calls)
                                 /\ error' = IF run.thrown # <<>> THEN run.thrown ELSE error
                            ELSE /\ error' = IF data.needClarification THEN ClarifyError
                                             ELSE error
                                 /\ UNCHANGED <<exec, evalCount>>
    /\ loading' = FALSE
    /\ UNCHANGED <<ggbApi, text, abortRef, execIn, execPc>>

\* onClear
Clear ==
    /\ error' = <<>>
    /\ explanation' = <<>>
    /\ lastCommands' = <<>>
    /\ UNCHANGED <<ggbApi, text, loading, chatHistory, abortRef, requests, exec, evalCount,
                   execIn, execPc>>

-----------------------------------------------------------------------------
(* executeCommands on its own *)

\* arguments of executeCommands
ExecutorCommands ==
    { JsUndefined, JsNull, JsStr(<<>>), JsArr(<<>>),
      JsStr(<<" ", "\n", " ">>),
      JsStr(<<"A", "\n", "B">>),
      JsStrArr(<< <<" ">> >>),
      JsStrArr(<< <<"A">>, <<"B">> >>),
      JsArr(<<JsStr(<<"A">>), JsStr(<<" ">>), JsNull, JsStr(<<"C">>)>>) }

\* the lastCommands of the render executeCommands is called in
PriorBatches == {<<>>, << <<"P">> >>}

ExecutorInputs ==
    UNION { { [commands |-> c, engine |-> e] : e \in Engines(normalizeCommands(c)) } :
            c \in ExecutorCommands }

\* one call of executeCommands; setLastCommands(cmds) is reached by a batch
\* that has been applied
RunBatch ==
    /\ execPc = "input"
    /\ LET run == executeCommands(execIn.commands, ggbApi, execIn.engine)
       IN  /\ exec' = run
           /\ evalCount' = evalCount + Len(run.calls)
           /\ lastCommands' = IF run.applied THEN run.batch ELSE lastCommands
    /\ execPc' = "done"
    /\ UNCHANGED <<ggbApi, text, loading, error, explanation, chatHistory, abortRef,
                   requests, execIn>>

-----------------------------------------------------------------------------
(* extractGeoGebraBlock on its own *)

MaxBlockLines == 2

\* the parts of a reply that holds a fenced block
FencedBefore == {<<>>, <<" ", "H", "i", "\n">>}
FencedTags == {Geogebra, <<" ">> \o SwapCase(Geogebra), <<"G", "e", "o">> \o Drop(Geogebra, 3)}
FencedTagTails == {<<>>, <<" ">>}
LineEndings == {<<"\n">>, <<"\r", "\n">>}
FencedLines ==
    { <<"A">>, <<" ", "B", "=", "1", " ">>, <<" ">>, <<"#", "c">>,
      SwapCase(Execute) \o <<"(", "A", ")">> }
FencedAfter ==
    { <<>>, <<"\n", "o", "k", " ">>,
      <<"\n">> \o Backticks \o Geogebra \o <<"\n", "Z", "\n">> \o Backticks }

ExtractorInputs ==
    [server : Servers, before : FencedBefore, tag : FencedTags, tagTail : FencedTagTails,
     eol : LineEndings, lines : ArraysOf(FencedLines, MaxBlockLines),
     eolBeforeClose : BOOLEAN, after : FencedAfter]

\* the reply made of the parts
FencedReply(parts) ==
    parts.before \o Backticks \o parts.tag \o parts.tagTail \o parts.eol
        \o Join(parts.lines, parts.eol)
        \o (IF parts.eolBeforeClose THEN parts.eol ELSE <<>>)
        \o Backticks \o parts.after

NoExtractorInput ==
    [server |-> "part_000", before |-> <<>>, tag |-> <<>>, tagTail |-> <<>>, eol |-> <<>>,
     lines |-> <<>>, eolBeforeClose |-> FALSE, after |-> <<>>]
NoExtractorOutput == [commands |-> <<>>, explanation |-> <<>>]

\* one call of the server's extractGeoGebraBlock
Extract ==
    /\ extPc = "input"
    /\ extOut' = extractGeoGebraBlock(JsStr(FencedReply(extIn)), extIn.server = "part_000")
    /\ extPc' = "done"
    /\ UNCHANGED extIn

-----------------------------------------------------------------------------
vars == <<sanVars, histVars, fbVars, srvVars, cliVars, extVars>>

NoHistoryInput == [t |-> "null", a |-> <<>>]
NoHistoryOutput == [threw |-> FALSE, out |-> <<>>]
NoFallbackOutput == [explanation |-> <<>>, commands |-> <<>>]
NoEnv == [apiKey |-> JsUndefined, returnRaw |-> FALSE]
NoBody == [text |-> JsUndefined, history |-> [t |-> "undefined", a |-> <<>>]]
InitialText == <<"x">>
NoExecInput == [commands |-> JsUndefined, engine |-> <<>>]

InitSanitizer ==
    /\ sanIn \in SanitizerInputs /\ sanOut = <<>> /\ sanTwice = <<>> /\ sanPc = "input"
    /\ histIn = NoHistoryInput /\ histOut = NoHistoryOutput /\ histPc = "off"
    /\ fbIn = JsNull /\ fbOut = NoFallbackOutput /\ fbPc = "off"
    /\ server = "part_000" /\ env = NoEnv /\ reqBody = NoBody /\ srvPc = "off"
    /\ upstream = JsUndefined /\ srvResult = NoResult /\ response = NoResponse
    /\ axiosCalls = <<>>
    /\ ggbApi = FALSE /\ text = InitialText /\ loading = FALSE /\ error = <<>>
    /\ explanation = <<>> /\ lastCommands = <<>> /\ chatHistory = <<>> /\ abortRef = 0
    /\ requests = <<>> /\ exec = NoRun /\ evalCount = 0
    /\ execIn = NoExecInput /\ execPc = "off"
    /\ extIn = NoExtractorInput /\ extOut = NoExtractorOutput /\ extPc = "off"

SpecSanitizer ==
    InitSanitizer /\ [][Sanitize /\ UNCHANGED <<histVars, fbVars, srvVars, cliVars, extVars>>]_vars

InitHistory ==
    /\ sanIn = JsNull /\ sanOut = <<>> /\ sanTwice = <<>> /\ sanPc = "off"
    /\ histIn \in HistoryInputs /\ histOut = NoHistoryOutput /\ histPc = "input"
    /\ fbIn = JsNull /\ fbOut = NoFallbackOutput /\ fbPc = "off"
    /\ server = "part_000" /\ env = NoEnv /\ reqBody = NoBody /\ srvPc = "off"
    /\ upstream = JsUndefined /\ srvResult = NoResult /\ response = NoResponse
    /\ axiosCalls = <<>>
    /\ ggbApi = FALSE /\ text = InitialText /\ loading = FALSE /\ error = <<>>
    /\ explanation = <<>> /\ lastCommands = <<>> /\ chatHistory = <<>> /\ abortRef = 0
    /\ requests = <<>> /\ exec = NoRun /\ evalCount = 0
    /\ execIn = NoExecInput /\ execPc = "off"
    /\ extIn = NoExtractorInput /\ extOut = NoExtractorOutput /\ extPc = "off"

SpecHistory ==
    InitHistory /\ [][Normalize /\ UNCHANGED <<sanVars, fbVars, srvVars, cliVars, extVars>>]_vars

InitFallback ==
    /\ sanIn = JsNull /\ sanOut = <<>> /\ sanTwice = <<>> /\ sanPc = "off"
    /\ histIn = NoHistoryInput /\ histOut = NoHistoryOutput /\ histPc = "off"
    /\ fbIn \in FallbackInputs /\ fbOut = NoFallbackOutput /\ fbPc = "input"
    /\ server = "part_000" /\ env = NoEnv /\ reqBody = NoBody /\ srvPc = "off"
    /\ upstream = JsUndefined /\ srvResult = NoResult /\ response = NoResponse
    /\ axiosCalls = <<>>
    /\ ggbApi = FALSE /\ text = InitialText /\ loading = FALSE /\ error = <<>>
    /\ explanation = <<>> /\ lastCommands = <<>> /\ chatHistory = <<>> /\ abortRef = 0
    /\ requests = <<>> /\ exec = NoRun /\ evalCount = 0
    /\ execIn = NoExecInput /\ execPc = "off"
    /\ extIn = NoExtractorInput /\ extOut = NoExtractorOutput /\ extPc = "off"

SpecFallback ==
    InitFallback /\ [][Fallback /\ UNCHANGED <<sanVars, histVars, srvVars, cliVars, extVars>>]_vars

InitServer ==
    /\ sanIn = JsNull /\ sanOut = <<>> /\ sanTwice = <<>> /\ sanPc = "off"
    /\ histIn = NoHistoryInput /\ histOut = NoHistoryOutput /\ histPc = "off"
    /\ fbIn = JsNull /\ fbOut = NoFallbackOutput /\ fbPc = "off"
    /\ server \in Servers
    /\ env \in [apiKey : ApiKeys, returnRaw : BOOLEAN]
    /\ reqBody \in [text : RequestTexts, history : RequestHistories]
    /\ srvPc = "request"
    /\ upstream = JsUndefined /\ srvResult = NoResult /\ response = NoResponse
    /\ axiosCalls = <<>>
    /\ ggbApi = FALSE /\ text = InitialText /\ loading = FALSE /\ error = <<>>
    /\ explanation = <<>> /\ lastCommands = <<>> /\ chatHistory = <<>> /\ abortRef = 0
    /\ requests = <<>> /\ exec = NoRun /\ evalCount = 0
    /\ execIn = NoExecInput /\ execPc = "off"
    /\ extIn = NoExtractorInput /\ extOut = NoExtractorOutput /\ extPc = "off"

SrvNext ==
    \/ Translate /\ UNCHANGED <<sanVars, histVars, fbVars, cliVars, extVars>>
    \/ UpstreamReplies /\ UNCHANGED <<sanVars, histVars, fbVars, cliVars, extVars>>
    \/ UpstreamFails /\ UNCHANGED <<sanVars, histVars, fbVars, cliVars, extVars>>

SpecServer == InitServer /\ [][SrvNext]_vars

InitExtractor ==
    /\ sanIn = JsNull /\ sanOut = <<>> /\ sanTwice = <<>> /\ sanPc = "off"
    /\ histIn = NoHistoryInput /\ histOut = NoHistoryOutput /\ histPc = "off"
    /\ fbIn = JsNull /\ fbOut = NoFallbackOutput /\ fbPc = "off"
    /\ server = "part_000" /\ env = NoEnv /\ reqBody = NoBody /\ srvPc = "off"
    /\ upstream = JsUndefined /\ srvResult = NoResult /\ response = NoResponse
    /\ axiosCalls = <<>>
    /\ ggbApi = FALSE /\ text = InitialText /\ loading = FALSE /\ error = <<>>
    /\ explanation = <<>> /\ lastCommands = <<>> /\ chatHistory = <<>> /\ abortRef = 0
    /\ requests = <<>> /\ exec = NoRun /\ evalCount = 0
    /\ execIn = NoExecInput /\ execPc = "off"
    /\ extIn \in ExtractorInputs /\ extOut = NoExtractorOutput /\ extPc = "input"

SpecExtractor ==
    InitExtractor
        /\ [][Extract /\ UNCHANGED <<sanVars, histVars, fbVars, srvVars, cliVars>>]_vars

InitExecutor ==
    /\ sanIn = JsNull /\ sanOut = <<>> /\ sanTwice = <<>> /\ sanPc = "off"
    /\ histIn = NoHistoryInput /\ histOut = NoHistoryOutput /\ histPc = "off"
    /\ fbIn = JsNull /\ fbOut = NoFallbackOutput /\ fbPc = "off"
    /\ server = "part_000" /\ env = NoEnv /\ reqBody = NoBody /\ srvPc = "off"
    /\ upstream = JsUndefined /\ srvResult = NoResult /\ response = NoResponse
    /\ axiosCalls = <<>>
    /\ ggbApi \in BOOLEAN /\ text = InitialText /\ loading = FALSE /\ error = <<>>
    /\ explanation = <<>> /\ lastCommands \in PriorBatches /\ chatHistory = <<>>
    /\ abortRef = 0
    /\ requests = <<>> /\ exec = NoRun /\ evalCount = 0
    /\ execIn \in ExecutorInputs /\ execPc = "input"
    /\ extIn = NoExtractorInput /\ extOut = NoExtractorOutput /\ extPc = "off"

SpecExecutor ==
    InitExecutor /\ [][RunBatch /\ UNCHANGED <<sanVars, histVars, fbVars, srvVars, extVars>>]_vars

\* the state of App after its first render
Init ==
    /\ sanIn = JsNull /\ sanOut = <<>> /\ sanTwice = <<>> /\ sanPc = "off"
    /\ histIn = NoHistoryInput /\ histOut = NoHistoryOutput /\ histPc = "off"
    /\ fbIn = JsNull /\ fbOut = NoFallbackOutput /\ fbPc = "off"
    /\ server = "part_000" /\ env = NoEnv /\ reqBody = NoBody /\ srvPc = "off"
    /\ upstream = JsUndefined /\ srvResult = NoResult /\ response = NoResponse
    /\ axiosCalls = <<>>
    /\ ggbApi = FALSE /\ text = InitialText /\ loading = FALSE /\ error = <<>>
    /\ explanation = <<>> /\ lastCommands = <<>> /\ chatHistory = <<>> /\ abortRef = 0
    /\ requests = <<>> /\ exec = NoRun /\ evalCount = 0
    /\ execIn = NoExecInput /\ execPc = "off"
    /\ extIn = NoExtractorInput /\ extOut = NoExtractorOutput /\ extPc = "off"

\* onSubmit and onClear as the callbacks they are, called in any order with
\* the settling of the requests
Next ==
    \/ ApiReady /\ UNCHANGED <<sanVars, histVars, fbVars, srvVars, extVars>>
    \/ SetText /\ UNCHANGED <<sanVars, histVars, fbVars, srvVars, extVars>>
    \/ SubmitBlank /\ UNCHANGED <<sanVars, histVars, fbVars, srvVars, extVars>>
    \/ Submit /\ UNCHANGED <<sanVars, histVars, fbVars, srvVars, extVars>>
    \/ \E i \in 1..Len(requests) :
          FetchResolves(i) /\ UNCHANGED <<sanVars, histVars, fbVars, srvVars, extVars>>
    \/ \E i \in 1..Len(requests) :
          FetchRejects(i) /\ UNCHANGED <<sanVars, histVars, fbVars, srvVars, extVars>>
    \/ \E i \in 1..Len(requests) :
          BodyRead(i) /\ UNCHANGED <<sanVars, histVars, fbVars, srvVars, extVars>>
    \/ Clear /\ UNCHANGED <<sanVars, histVars, fbVars, srvVars, extVars>>

Spec == Init /\ [][Next]_vars

\* the buttons that call onSubmit and onClear
SubmitDisabled == loading
ClearDisabled == ~ggbApi \/ loading

\* the callbacks called through their buttons only
NextButtons ==
    \/ ApiReady /\ UNCHANGED <<sanVars, histVars, fbVars, srvVars, extVars>>
    \/ SetText /\ UNCHANGED <<sanVars, histVars, fbVars, srvVars, extVars>>
    \/ ~SubmitDisabled /\ SubmitBlank /\ UNCHANGED <<sanVars, histVars, fbVars, srvVars, extVars>>
    \/ ~SubmitDisabled /\ Submit /\ UNCHANGED <<sanVars, histVars, fbVars, srvVars, extVars>>
    \/ \E i \in 1..Len(requests) :
          FetchResolves(i) /\ UNCHANGED <<sanVars, histVars, fbVars, srvVars, extVars>>
    \/ \E i \in 1..Len(requests) :
          FetchRejects(i) /\ UNCHANGED <<sanVars, histVars, fbVars, srvVars, extVars>>
    \/ \E i \in 1..Len(requests) :
          BodyRead(i) /\ UNCHANGED <<sanVars, histVars, fbVars, srvVars, extVars>>
    \/ ~ClearDisabled /\ Clear /\ UNCHANGED <<sanVars, histVars, fbVars, srvVars, extVars>>

SpecButtons == Init /\ [][NextButtons]_vars

\* through the buttons no two requests are ever outstanding together
SingleFlight ==
    Cardinality({i \in 1..Len(requests) : requests[i].pc # "done"}) <= 1

-----------------------------------------------------------------------------
(* Client claims *)

FirstFailure(engine) ==
    CHOOSE k \in DOMAIN engine : ~engine[k] /\ \A j \in 1..(k - 1) : engine[j]

\* C1: when command k is the first of the batch that the engine rejects,
\* executeCommands passes commands 1..k to evalCommand, once each and in
\* order, passes none of the later ones, and throws an error with command k's
\* text
C1_HaltAtFirstFailure ==
    (exec.api /\ \E k \in DOMAIN exec.engine : ~exec.engine[k]) =>
        /\ exec.calls = SubSeq(exec.batch, 1, FirstFailure(exec.engine))
        /\ exec.thrown = ExecFailed(exec.batch[FirstFailure(exec.engine)])

\* command 2 of 3 fails on an engine that would have accepted command 3
C1_Witness ==
    /\ exec.api
    /\ exec.batch = << <<"A">>, <<"B">>, <<"C">> >>
    /\ exec.engine = <<TRUE, FALSE, TRUE>>
    /\ exec.calls = << <<"A">>, <<"B">> >>
    /\ error = ExecFailed(<<"B">>)

\* C2: the settling of a request that a later submission has aborted calls
\* evalCommand not once and leaves explanation, lastCommands, chatHistory and
\* the error message as they are
C2_AbortedResponseDiscarded ==
    [][\A i \in 1..Len(requests) :
          (requests[i].aborted /\ requests[i].pc # "done" /\ requests'[i].pc = "done")
              => UNCHANGED <<evalCount, explanation, lastCommands, chatHistory, error>>]_vars

\* C13: the handling of a response that was not aborted, has status 200,
\* carries no commands and has needClarification true shows the explanation,
\* calls evalCommand not once and leaves the error message empty
C13_ClarificationWithoutError ==
    [][\A i \in 1..Len(requests) :
          (/\ requests[i].pc = "body" /\ requests'[i].pc = "done"
           /\ ~requests[i].aborted /\ requests[i].status = "200"
           /\ normalizeCommands(requests'[i].data.commands) = <<>>
           /\ requests'[i].data.needClarification)
              => /\ explanation' = requests'[i].data.explanation
                 /\ evalCount' = evalCount
                 /\ error' = <<>>]_vars

\* C14: called while ggbApi is null or with a batch that normalizes to the
\* empty list, executeCommands throws, calls evalCommand not once and leaves
\* lastCommands as it is
C14_ExecutorPreconditions ==
    [][(/\ execPc = "input" /\ execPc' = "done"
        /\ (~ggbApi \/ normalizeCommands(execIn.commands) = <<>>))
           => /\ exec'.thrown = (IF ~ggbApi THEN NotReadyError ELSE NoCommandsError)
              /\ exec'.calls = <<>>
              /\ evalCount' = evalCount
              /\ lastCommands' = lastCommands]_vars

\* a batch of one blank line on a ready applet, after an earlier batch
C14_Witness ==
    /\ execPc = "done"
    /\ ggbApi
    /\ execIn.commands = JsStrArr(<< <<" ">> >>)
    /\ exec.thrown = NoCommandsError
    /\ exec.calls = <<>>
    /\ lastCommands = << <<"P">> >>

\* C15: lastCommands is empty or the batch of the last run of executeCommands,
\* every command of which the engine has accepted
C15_LastCommandsApplied ==
    lastCommands # <<>> =>
        /\ exec.applied
        /\ exec.batch = lastCommands
        /\ exec.calls = lastCommands
        /\ \A k \in DOMAIN exec.engine : exec.engine[k]

\* C18: loading is true whenever a request that has not been aborted is
\* still in flight
C18_LoadingWhileInFlight ==
    (\E i \in 1..Len(requests) : requests[i].pc # "done" /\ ~requests[i].aborted)
        => loading

-----------------------------------------------------------------------------
(* Sanitizer claims *)

CleanCommand(l) ==
    /\ l # <<>>
    /\ ~IsSpace(l[1]) /\ ~IsSpace(l[Len(l)])
    /\ \A p \in CommentPrefixes : ~StartsWith(l, p)
    /\ \A name \in ScriptCommandNames :
          ~(StartsWithNoCase(l, name) /\ Len(l) > Len(name) /\ l[Len(name) + 1] = "(")

\* C3: every element of sanitizeCommands' result is a non-empty trimmed string
\* that starts with no comment prefix and with no script command name followed
\* by "(", whatever the case of the name
C3_SanitizerOutputClean ==
    sanPc = "done" => \A i \in 1..Len(sanOut) : CleanCommand(sanOut[i])

\* an input holding a script command in another case, next to a line that stays
C3_Witness ==
    /\ sanPc = "done"
    /\ sanIn.t = "arr" /\ Len(sanIn.a) = 2
    /\ sanIn.a[1] = JsStr(<<" ">> \o SwapCase(Execute) \o <<"(", "A">>)
    /\ sanOut = << <<"B", "=", "1">> >>

\* C4: sanitizing the sanitizer's result returns it unchanged, element for
\* element and in the same order
C4_SanitizerIdempotent ==
    sanPc = "done" => sanTwice = sanOut

\* an input the first pass changes (a padded line kept, a comment dropped)
C4_Witness ==
    /\ sanPc = "done"
    /\ sanIn.t = "arr" /\ Len(sanIn.a) = 2
    /\ sanIn.a[1] = JsStr(<<"\t", "A", " ", "(", "A", "\r", "\n">>)
    /\ sanIn.a[2] = JsStr(<<" ", "#", "x">>)
    /\ sanOut = << <<"A", " ", "(", "A">> >>
    /\ sanTwice = sanOut

-----------------------------------------------------------------------------
(* Fallback generator claims *)

StartAnimation == <<"S","t","a","r","t","A","n","i","m","a","t","i","o","n">>
SliderDefinition == <<" ","="," ","S","l","i","d","e","r","[">>
PointDefinition == <<" ","="," ","(">>

Count(seq, Test(_)) == Cardinality({i \in 1..Len(seq) : Test(seq[i])})

\* a point whose coordinates use a variable that the list defines as a slider
SliderDrivenPoint(c, cmds) ==
    /\ At(c, 2, PointDefinition)
    /\ \E k \in 1..Len(cmds) :
          /\ At(cmds[k], 2, SliderDefinition)
          /\ Contains(c, <<"(", cmds[k][1], ")">>)

OneAnimatedPoint(cmds) ==
    /\ Count(cmds, LAMBDA c : SliderDrivenPoint(c, cmds)) = 1
    /\ Count(cmds, LAMBDA c : StartsWith(c, StartAnimation)) = 1

CircleAndMotion(t) == Contains(t, Circle) /\ \E w \in MotionWords : Contains(t, w)

\* C7 as stated: every non-empty input with the circle keyword and a motion
\* keyword gets exactly one slider-driven point and one StartAnimation command
C7_Original ==
    (fbPc = "done" /\ fbIn.t = "str" /\ CircleAndMotion(fbIn.s))
        => OneAnimatedPoint(fbOut.commands)

\* C7: every input with the circle keyword and a motion keyword and without
\* the ellipse keyword gets exactly one slider-driven point and exactly one
\* StartAnimation command
C7_CircleMotionNoEllipse ==
    (fbPc = "done" /\ fbIn.t = "str" /\ CircleAndMotion(fbIn.s)
        /\ ~Contains(fbIn.s, Ellipse))
        => OneAnimatedPoint(fbOut.commands)

C7_Witness ==
    /\ fbPc = "done"
    /\ fbIn = JsStr(<<" ", "yuan", "zhuan">>)
    /\ fbOut.commands = MotionCommands

-----------------------------------------------------------------------------
(* Server claims *)

\* the lines of the block the sanitizer lets through, trimmed, in their order
FencedCommands ==
    SelectSeq([i \in 1..Len(extIn.lines) |-> Trim(extIn.lines[i])],
              LAMBDA l : l # <<>> /\ ~IsComment(l) /\ ~IsScriptCommand(l))

\* C16: for a reply that holds a geogebra fenced block, on either server,
\* extractGeoGebraBlock returns the trimmed non-blank lines of the first block
\* that the sanitizer lets through, in their order, and as explanation the
\* reply without that block, trimmed
C16_ExtractorOnFencedReply ==
    extPc = "done" =>
        /\ extOut.commands = FencedCommands
        /\ extOut.explanation = Trim(extIn.before \o extIn.after)

\* C5: on the sanitizing server every command of a 200 response is clean, on
\* the fallback path and on the model path
C5_ResponseCommandsClean ==
    (srvPc = "done" /\ server = "part_000" /\ response.status = 200)
        => \A i \in 1..Len(response.commands) : CleanCommand(response.commands[i])

\* a reply whose block holds a comment line and a script command, answered
\* with the one remaining command
C5_Witness ==
    /\ srvPc = "done" /\ server = "part_000" /\ response.status = 200
    /\ srvResult.mode = "llm"
    /\ \E i \in 1..Len(upstream.s) : At(upstream.s, i, SwapCase(Execute))
    /\ response.commands = << <<"A">>, <<"B">> >>

\* C6: on the sanitizing server a non-blank text whose translation did not
\* fail upstream is answered 200, with needClarification true exactly when
\* the commands are empty and false exactly when they are not
C6_ClarificationNotError ==
    (srvPc = "done" /\ server = "part_000" /\ srvResult # NoResult)
        => /\ response.status = 200
           /\ response.needClarification = "true" <=> response.commands = <<>>
           /\ response.needClarification = "false" <=> response.commands # <<>>

\* a fenced block whose only line the sanitizer removes
C6_Witness ==
    /\ srvPc = "done" /\ server = "part_000"
    /\ upstream = JsStr(<<"H", "i", "\n">> \o Backticks \o Geogebra \o <<"\n">>
                        \o Button \o <<"(", "1", ")">> \o Backticks)
    /\ response.status = 200
    /\ response.commands = <<>>
    /\ response.needClarification = "true"
    /\ response.explanation = <<"H", "i">>

\* C8: without an API key the result is tagged fallback with raw null and
\* axios.post is never called
C8_NoKeyNoNetwork ==
    ~Truthy(env.apiKey) =>
        /\ axiosCalls = <<>>
        /\ srvPc # "awaiting"
        /\ (srvPc = "done" /\ ~TextRejected(reqBody.text)) =>
              (srvResult.mode = "fallback" /\ srvResult.raw = JsNull)

C8_Witness ==
    /\ srvPc = "done"
    /\ env.apiKey = JsStr(<<>>)
    /\ reqBody.text = JsStr(<<"hua", "yuan">>)
    /\ srvResult.mode = "fallback"
    /\ response.status = 200
    /\ response.commands = CircleCommands

C11_UpstreamFailureIs500 ==
    (srvPc = "done" /\ axiosCalls # <<>> /\ upstream.t \in {"undefined", "null"})
        => /\ response.status = 500
           /\ response.error # <<>>
           /\ Len(axiosCalls) = 1

\* C12: a text that is missing, not a string, empty or white space only is
\* answered 400 with an error, and neither the model endpoint nor the
\* fallback generator is reached
C12_BlankTextRejected ==
    (reqBody.text.t # "str" \/ \A k \in DOMAIN reqBody.text.s : IsSpace(reqBody.text.s[k])) =>
        /\ axiosCalls = <<>>
        /\ srvResult = NoResult
        /\ srvPc # "awaiting"
        /\ srvPc = "done" => (response.status = 400 /\ response.error # <<>>)

\* a text of white space only, on a server that has a key
C12_Witness ==
    /\ srvPc = "done"
    /\ reqBody.text = JsStr(<<" ", "\n">>)
    /\ Truthy(env.apiKey)
    /\ response.status = 400
    /\ response.error # <<>>

-----------------------------------------------------------------------------
(* History normalizer claims *)

\* C10: for any input, normalizeHistory returns without throwing a list of at
\* most 8 entries, each with role user or assistant and a content of at most
\* 4000 characters
C10_HistoryBounded ==
    histPc = "done" =>
        /\ ~histOut.threw
        /\ Len(histOut.out) <= 8
        /\ \A i \in 1..Len(histOut.out) :
              /\ histOut.out[i].role \in {User, Assistant}
              /\ RunsLength(histOut.out[i].content) <= 4000

\* a null entry, then more valid over-long messages than the cap
C10_Witness ==
    /\ histPc = "done"
    /\ Len(histIn.a) > MAX_MESSAGES + 1
    /\ histIn.a[1].t = "null"
    /\ histIn.a[2] = LongAssistant
    /\ Len(histOut.out) = MAX_MESSAGES
    /\ RunsLength(histOut.out[1].content) = MAX_CHARS_PER_MESSAGE

\* the positions of the input's entries with role user or assistant and a
\* string content
TurnIndexes ==
    { i \in 1..Len(histIn.a) :
        /\ histIn.a[i].t = "obj"
        /\ histIn.a[i].role.t = "str" /\ histIn.a[i].role.s \in {User, Assistant}
        /\ histIn.a[i].content.t = "str" }

\* those of them whose content holds a character that is not white space
NonBlankTurnIndexes ==
    { i \in TurnIndexes :
        \E r \in 1..Len(histIn.a[i].content.runs) :
            ~IsSpace(histIn.a[i].content.runs[r].c) /\ histIn.a[i].content.runs[r].n > 0 }

\* the output is the entries at the last 8 positions of I, in the input's
\* order, each with its content trimmed and cut to 4000 characters
IsLatestOf(I) ==
    LET K == { i \in I : Cardinality({ j \in I : j > i }) < 8 }
    IN  /\ Len(histOut.out) = Cardinality(K)
        /\ \A i \in K :
              histOut.out[Cardinality({ j \in K : j <= i })] =
                  [role |-> histIn.a[i].role.s,
                   content |-> RunsSlice(RunsTrim(histIn.a[i].content.runs), 4000)]

\* C17 as stated: the output is the last 8 entries with role user or
\* assistant and a string content; no other entry is dropped
C17_Original ==
    (histPc = "done" /\ histIn.t = "arr") => (~histOut.threw /\ IsLatestOf(TurnIndexes))

\* C17: the output is the last 8 (or all) of the entries with role user or
\* assistant and a string content that is not blank after trimming, in the
\* input's order, each trimmed and cut to 4000 characters
C17_LatestNonBlankTurns ==
    (histPc = "done" /\ histIn.t = "arr") =>
        (~histOut.threw /\ IsLatestOf(NonBlankTurnIndexes))

\* nine entries with a string content, the last of them blank: the first one
\* is still among the eight of the output
C17_Witness ==
    /\ histPc = "done"
    /\ Len(histIn.a) = 9
    /\ histIn.a[1] = ShortUser
    /\ histIn.a[2] = LongAssistant
    /\ histIn.a[9] = BlankUser
    /\ Len(histOut.out) = 8
    /\ histOut.out[1].role = User

====
